---- MODULE Spec2Model ----
(***************************************************************************)
(* Loading docs conf.py of AutoHeal Locator.                               *)
(*                                                                         *)
(* conf.py is a sequence of top-level assignment statements.  Loading it   *)
(* executes the statements one after the other in a namespace (the         *)
(* environment `env`), which may already hold bindings when the file is    *)
(* executed again in a namespace left by an earlier load.  The model keeps *)
(* the Python values as tagged records, the statements as a sequence in    *)
(* file order, and the interpreter's position as `pc`.                     *)
(***************************************************************************)
EXTENDS Integers, Sequences, FiniteSets, TLC

VARIABLES env, pc, trace

vars == <<env, pc, trace>>

(***************************************************************************)
(* Bound of the model: how many configuration names (counted from the end  *)
(* of the file) the starting namespace may already bind.                   *)
(***************************************************************************)
MaxStale == 3

(***************************************************************************)
(* Python values.                                                          *)
(***************************************************************************)
Str(s) == [t |-> "str", s |-> s]

PyInt(n) == [t |-> "int", n |-> n]

Bool(b) == [t |-> "bool", b |-> b]

PyNone == [t |-> "NoneType"]

List(xs) == [t |-> "list", items |-> xs]

Tuple(xs) == [t |-> "tuple", elems |-> xs]

StrList(ss) == List([i \in 1..Len(ss) |-> Str(ss[i])])

(***************************************************************************)
(* A string literal given by the characters between its quotes.  A raw     *)
(* literal (r"...") keeps every character; an ordinary literal turns a     *)
(* backslash followed by a backslash or a quote into that one character    *)
(* and keeps an unrecognised escape as it is written (conf.py uses no      *)
(* other escape sequence).                                                 *)
(***************************************************************************)
RECURSIVE Unescape(_)
Unescape(cs) ==
    IF cs = <<>> THEN <<>>
    ELSE IF Head(cs) = "\\" /\ Len(cs) >= 2 /\ cs[2] \in {"\\", "\"", "'"}
         THEN <<cs[2]>> \o Unescape(SubSeq(cs, 3, Len(cs)))
         ELSE <<Head(cs)>> \o Unescape(Tail(cs))

StrLit(raw, cs) == [t |-> "str", chars |-> IF raw THEN cs ELSE Unescape(cs)]

(***************************************************************************)
(* A dict display {k1: v1, k2: v2, ...}: the items are evaluated and       *)
(* stored left to right, so that a key written more than once keeps the    *)
(* value of its last item.                                                 *)
(***************************************************************************)
Keys(items) == {items[i][1] : i \in 1..Len(items)}

Occurrences(items, k) == {i \in 1..Len(items) : items[i][1] = k}

LastOccurrence(items, k) ==
    CHOOSE i \in Occurrences(items, k) : \A j \in Occurrences(items, k) : j <= i

FirstOccurrence(items, k) ==
    CHOOSE i \in Occurrences(items, k) : \A j \in Occurrences(items, k) : i <= j

DictDisplayFirstWins(items) ==
    [t |-> "dict",
     map |-> [k \in Keys(items) |-> items[FirstOccurrence(items, k)][2]]]

DictDisplay(items) ==
    [t |-> "dict",
     map |-> [k \in Keys(items) |-> items[LastOccurrence(items, k)][2]]]

(***************************************************************************)
(* The statements of conf.py, section by section.  A statement is the      *)
(* name it binds, the value of its right-hand side, the line it starts on  *)
(* and the section comment it stands under.                                *)
(***************************************************************************)
Stmt(line, section, name, value) ==
    [line |-> line, section |-> section, name |-> name, value |-> value]

ProjectInformationRebinds ==
    LET sec == "Project information" IN
    << Stmt(5, sec, "project", Str("AutoHeal Locator")),
       Stmt(6, sec, "copyright", Str("2024, AutoHeal Team")),
       Stmt(7, sec, "author", Str("AutoHeal Team")),
       Stmt(8, sec, "release", Str("2.0.0")),
       Stmt(9, sec, "project", Str("AutoHeal")) >>

ProjectInformation ==
    LET sec == "Project information" IN
    << Stmt(5, sec, "project", Str("AutoHeal Locator")),
       Stmt(6, sec, "copyright", Str("2024, AutoHeal Team")),
       Stmt(7, sec, "author", Str("AutoHeal Team")),
       Stmt(8, sec, "release", Str("2.0.0")) >>

ExtensionsReordered ==
    StrList(<< "sphinx.ext.autodoc", "myst_parser", "sphinx.ext.viewcode",
               "sphinx.ext.napoleon", "sphinx_design", "sphinx_copybutton",
               "sphinx.ext.intersphinx" >>)

ExtensionsNoCopybutton ==
    StrList(<< "myst_parser", "sphinx.ext.autodoc", "sphinx.ext.viewcode",
               "sphinx.ext.napoleon", "sphinx_design",
               "sphinx.ext.intersphinx" >>)

Extensions ==
    StrList(<< "myst_parser", "sphinx.ext.autodoc", "sphinx.ext.viewcode",
               "sphinx.ext.napoleon", "sphinx_design", "sphinx_copybutton",
               "sphinx.ext.intersphinx" >>)

GeneralConfiguration ==
    LET sec == "General configuration" IN
    << Stmt(11, sec, "extensions", Extensions),
       Stmt(22, sec, "templates_path", StrList(<< "_templates" >>)),
       Stmt(26, sec, "exclude_patterns",
            StrList(<< "_build", "Thumbs.db", ".DS_Store", "site", ".github",
                       ".claude", "temp_backup", "target" >>)) >>

IconLink(name, url, icon) ==
    DictDisplay(<< <<"name", Str(name)>>, <<"url", Str(url)>>,
                   <<"icon", Str(icon)>>, <<"type", Str("fontawesome")>> >>)

IconLinks ==
    List(<< IconLink("GitHub",
                     "https://github.com/yourusername/autoheal-locator",
                     "fa-brands fa-github"),
            IconLink("Maven Central",
                     "https://maven-badges.herokuapp.com/maven-central/com.autoheal/autoheal-locator",
                     "fa-solid fa-cube"),
            IconLink("JavaDoc",
                     "https://javadoc.io/doc/com.autoheal/autoheal-locator",
                     "fa-solid fa-book") >>)

Logo ==
    DictDisplay(<< <<"image_light", Str("_static/logo.svg")>>,
                   <<"image_dark", Str("_static/logo.svg")>>,
                   <<"alt", Str("AutoHeal Locator Documentation")>> >>)

ThemeOptionItems ==
    << <<"github_url", Str("https://github.com/yourusername/autoheal-locator")>>,
       <<"use_edit_page_button", Bool(FALSE)>>,
       <<"show_toc_level", PyInt(3)>>,
       <<"navbar_align", Str("left")>>,
       <<"navbar_center", StrList(<< "navbar-nav" >>)>>,
       <<"navbar_persistent", StrList(<< "search-button" >>)>>,
       <<"primary_sidebar_end", StrList(<< "indices" >>)>>,
       <<"footer_start", StrList(<< "copyright" >>)>>,
       <<"footer_end", StrList(<< "sphinx-version" >>)>>,
       <<"secondary_sidebar_items", StrList(<< "page-toc", "sourcelink" >>)>>,
       <<"header_links_before_dropdown", PyInt(5)>>,
       <<"navigation_with_keys", Bool(FALSE)>>,
       <<"show_prev_next", Bool(FALSE)>>,
       <<"article_header_start", StrList(<< "breadcrumbs" >>)>>,
       <<"article_header_end", StrList(<< >>)>>,
       <<"show_nav_level", PyInt(2)>>,
       <<"navigation_depth", PyInt(4)>>,
       <<"collapse_navigation", Bool(FALSE)>>,
       <<"navigation_expand_subsections", Bool(TRUE)>>,
       <<"icon_links", IconLinks>>,
       <<"logo", Logo>>,
       <<"navigation_depth", PyInt(2)>>,
       <<"collapse_navigation", Bool(TRUE)>>,
       <<"show_nav_level", PyInt(1)>>,
       <<"article_footer_items", StrList(<< "prev-next" >>)>> >>

HtmlContextItemsOtherUser ==
    << <<"github_user", Str("autoheal")>>,
       <<"github_repo", Str("autoheal-locator")>>,
       <<"github_version", Str("main")>>,
       <<"doc_path", Str("docs")>> >>

HtmlContextItems ==
    << <<"github_user", Str("yourusername")>>,
       <<"github_repo", Str("autoheal-locator")>>,
       <<"github_version", Str("main")>>,
       <<"doc_path", Str("docs")>> >>

HtmlOutput ==
    LET sec == "Options for HTML output" IN
    << Stmt(29, sec, "html_theme", Str("pydata_sphinx_theme")),
       Stmt(31, sec, "html_theme_options", DictDisplay(ThemeOptionItems)),
       Stmt(82, sec, "html_context", DictDisplay(HtmlContextItems)),
       Stmt(92, sec, "html_static_path", StrList(<< "_static" >>)),
       Stmt(95, sec, "html_css_files", StrList(<< "custom.css" >>)),
       Stmt(99, sec, "html_title", Str("AutoHeal Locator")),
       Stmt(100, sec, "html_short_title", Str("AutoHeal")),
       Stmt(103, sec, "html_sidebars",
            DictDisplay(<< <<"**", StrList(<< "navbar-logo", "search-field",
                                             "globaltoc.html",
                                             "sidebar-ethical-ads" >>)>> >>)) >>

MystOptions ==
    LET sec == "Options for MyST parser" IN
    << Stmt(108, sec, "myst_enable_extensions",
            StrList(<< "amsmath", "attrs_inline", "colon_fence", "deflist",
                       "dollarmath", "fieldlist", "html_admonition",
                       "html_image", "linkify", "replacements", "smartquotes",
                       "strikethrough", "substitution", "tasklist" >>)),
       Stmt(125, sec, "myst_url_schemes",
            Tuple(<< Str("http"), Str("https"), Str("mailto") >>)) >>

PromptTextChars ==
    << ">", ">", ">", " ", "|",
       "\\", ".", "\\", ".", "\\", ".", " ", "|",
       "\\", "$", " ", "|",
       "I", "n", " ", "\\", "[", "\\", "d", "*", "\\", "]", ":", " ", "|",
       " ", "{", "2", ",", "5", "}", "\\", ".", "\\", ".", "\\", ".", ":", " ", "|",
       " ", "{", "5", ",", "8", "}", ":", " " >>

CopyButtonOptionsLiteralPrompt ==
    LET sec == "Options for copy button" IN
    << Stmt(128, sec, "copybutton_prompt_text", StrLit(TRUE, PromptTextChars)),
       Stmt(129, sec, "copybutton_prompt_is_regexp", Bool(FALSE)),
       Stmt(130, sec, "copybutton_line_continuation_character",
            StrLit(FALSE, << "\\", "\\" >>)) >>

CopyButtonOptions ==
    LET sec == "Options for copy button" IN
    << Stmt(128, sec, "copybutton_prompt_text", StrLit(TRUE, PromptTextChars)),
       Stmt(129, sec, "copybutton_prompt_is_regexp", Bool(TRUE)),
       Stmt(130, sec, "copybutton_line_continuation_character",
            StrLit(FALSE, << "\\", "\\" >>)) >>

IntersphinxItemsLocalInventory ==
    << <<"python", Tuple(<< Str("https://docs.python.org/3"), PyNone >>)>>,
       <<"selenium", Tuple(<< Str("https://selenium-python.readthedocs.io/"),
                              Str("selenium.inv") >>)>> >>

IntersphinxItems ==
    << <<"python", Tuple(<< Str("https://docs.python.org/3"), PyNone >>)>>,
       <<"selenium", Tuple(<< Str("https://selenium-python.readthedocs.io/"),
                              PyNone >>)>> >>

IntersphinxOptions ==
    LET sec == "Options for intersphinx" IN
    << Stmt(133, sec, "intersphinx_mapping", DictDisplay(IntersphinxItems)) >>

AutodocOptionsTargetFirst ==
    LET sec == "Options for autodoc" IN
    << Stmt(139, sec, "autodoc_typehints_description_target", Str("documented")),
       Stmt(140, sec, "autodoc_typehints", Str("description")) >>

AutodocOptions ==
    LET sec == "Options for autodoc" IN
    << Stmt(139, sec, "autodoc_typehints", Str("description")),
       Stmt(140, sec, "autodoc_typehints_description_target", Str("documented")) >>

Program ==
    ProjectInformation \o GeneralConfiguration \o HtmlOutput \o MystOptions
        \o CopyButtonOptions \o IntersphinxOptions \o AutodocOptions

ConfigNames == {Program[i].name : i \in 1..Len(Program)}

(***************************************************************************)
(* The interpreter.                                                        *)
(***************************************************************************)
Done == Len(Program) + 1

Loaded == pc = Done

IsBound(name) == name \in DOMAIN env

\* Name binding of an assignment statement: the name is (re)bound to the
\* value, whatever it was bound to before.
BindIfAbsent(e, name, value) ==
    [n \in DOMAIN e \cup {name} |-> IF n \in DOMAIN e THEN e[n] ELSE value]

Bind(e, name, value) ==
    [n \in DOMAIN e \cup {name} |-> IF n = name THEN value ELSE e[n]]

\* The names the starting namespace may already bind, and what to.
StaleNames ==
    {Program[i].name : i \in {j \in 1..Len(Program) : j > Len(Program) - MaxStale}}

StaleValues == {PyNone, Str("stale")}

Init ==
    /\ \E S \in SUBSET StaleNames : env \in [S -> StaleValues]
    /\ pc = 1
    /\ trace = <<>>

\* Execute the statement at position i of the file.
Assign(i) ==
    /\ pc = i
    /\ env' = Bind(env, Program[i].name, Program[i].value)
    /\ trace' = Append(trace, i)
    /\ pc' = i + 1

Next == \E i \in 1..Len(Program) : Assign(i)

Spec == Init /\ [][Next]_vars

\* The interpreter runs the file to its end.
FairSpec == Spec /\ WF_vars(Next)

(***************************************************************************)
(* The copy-button prompt pattern read as a regular expression.  A pattern *)
(* is an alternation of branches separated by an unescaped "|"; a branch   *)
(* is a sequence of atoms, each a literal character, a digit (\d) or any   *)
(* character (.), repeated between min and max times (max = Unbounded for  *)
(* "*").  A backslash makes the next character a literal, except \d.       *)
(***************************************************************************)
Unbounded == 0 - 1

Atom(kind, c, min, max) == [kind |-> kind, c |-> c, min |-> min, max |-> max]

Lit(c) == Atom("lit", c, 1, 1)

Digits == << "0", "1", "2", "3", "4", "5", "6", "7", "8", "9" >>

IsDigit(c) == \E d \in 1..Len(Digits) : Digits[d] = c

DigitValue(c) == (CHOOSE d \in 1..Len(Digits) : Digits[d] = c) - 1

RECURSIVE NumberValue(_)
NumberValue(ds) ==
    IF ds = <<>> THEN 0
    ELSE 10 * NumberValue(SubSeq(ds, 1, Len(ds) - 1)) + DigitValue(ds[Len(ds)])

IndexOf(cs, c) ==
    IF \E i \in 1..Len(cs) : cs[i] = c
    THEN CHOOSE i \in 1..Len(cs) : cs[i] = c /\ \A j \in 1..(i - 1) : cs[j] # c
    ELSE 0

AllDigits(ds) == ds # <<>> /\ \A i \in 1..Len(ds) : IsDigit(ds[i])

\* cs starts with a quantifier {m,n}
IsBraceQuantifier(cs) ==
    LET close == IndexOf(cs, "}")
        comma == IndexOf(cs, ",")
    IN  /\ cs # <<>> /\ Head(cs) = "{"
        /\ 2 < comma /\ comma + 1 < close
        /\ AllDigits(SubSeq(cs, 2, comma - 1))
        /\ AllDigits(SubSeq(cs, comma + 1, close - 1))

Requantify(branch, min, max) ==
    [branch EXCEPT ![Len(branch)] = Atom(@.kind, @.c, min, max)]

RECURSIVE ParseFrom(_, _, _)
ParseFrom(cs, branches, cur) ==
    IF cs = <<>> THEN Append(branches, cur)
    ELSE LET c == Head(cs) IN
         CASE c = "|" ->
                ParseFrom(Tail(cs), Append(branches, cur), <<>>)
           [] c = "\\" /\ Len(cs) >= 2 ->
                ParseFrom(SubSeq(cs, 3, Len(cs)), branches,
                          Append(cur, IF cs[2] = "d" THEN Atom("digit", "", 1, 1)
                                                     ELSE Lit(cs[2])))
           [] c = "*" /\ cur # <<>> ->
                ParseFrom(Tail(cs), branches, Requantify(cur, 0, Unbounded))
           [] c = "{" /\ cur # <<>> /\ IsBraceQuantifier(cs) ->
                LET close == IndexOf(cs, "}")
                    comma == IndexOf(cs, ",")
                IN  ParseFrom(SubSeq(cs, close + 1, Len(cs)), branches,
                              Requantify(cur,
                                         NumberValue(SubSeq(cs, 2, comma - 1)),
                                         NumberValue(SubSeq(cs, comma + 1, close - 1))))
           [] c = "." ->
                ParseFrom(Tail(cs), branches, Append(cur, Atom("any", "", 1, 1)))
           [] OTHER ->
                ParseFrom(Tail(cs), branches, Append(cur, Lit(c)))

ParseRegex(cs) == ParseFrom(cs, <<>>, <<>>)

(***************************************************************************)
(* Observers used by the properties.                                       *)
(***************************************************************************)
\* name is bound to value v
Is(name, v) == IsBound(name) /\ env[name] = v

\* the statement binding name has been executed in this load
Executed(name) == \E k \in 1..Len(trace) : Program[trace[k]].name = name

\* how many executed statements bound name
Bindings(name) == Cardinality({k \in 1..Len(trace) : Program[trace[k]].name = name})

\* the settings a load of the file defines, whatever the namespace held before
LoadedSettings ==
    [n \in ConfigNames |->
        Program[CHOOSE i \in 1..Len(Program) :
                    /\ Program[i].name = n
                    /\ \A j \in 1..Len(Program) : Program[j].name = n => j <= i].value]

(***************************************************************************)
(* Properties.                                                             *)
(***************************************************************************)

\* C1: after the load, `extensions` is exactly the list myst_parser,
\* sphinx.ext.autodoc, sphinx.ext.viewcode, sphinx.ext.napoleon,
\* sphinx_design, sphinx_copybutton, sphinx.ext.intersphinx, in that order:
\* seven entries, no duplicate, no other entry.
C1_ExtensionsExact ==
    Loaded =>
        /\ IsBound("extensions")
        /\ env["extensions"].t = "list"
        /\ LET xs == env["extensions"].items IN
            /\ Len(xs) = 7
            /\ xs = << Str("myst_parser"), Str("sphinx.ext.autodoc"),
                       Str("sphinx.ext.viewcode"), Str("sphinx.ext.napoleon"),
                       Str("sphinx_design"), Str("sphinx_copybutton"),
                       Str("sphinx.ext.intersphinx") >>
            /\ \A i, j \in 1..Len(xs) : xs[i] = xs[j] => i = j

C1_Witness ==
    /\ Loaded
    /\ Executed("extensions")
    /\ IsBound("extensions")
    /\ Len(env["extensions"].items) = 7

\* C2: after the load, `intersphinx_mapping` has exactly the keys python and
\* selenium, and each maps to a pair (non-empty base URL, None).
C2_IntersphinxTargets ==
    Loaded =>
        /\ IsBound("intersphinx_mapping")
        /\ env["intersphinx_mapping"].t = "dict"
        /\ LET m == env["intersphinx_mapping"].map IN
            /\ DOMAIN m = {"python", "selenium"}
            /\ \A k \in DOMAIN m :
                /\ m[k].t = "tuple"
                /\ Len(m[k].elems) = 2
                /\ m[k].elems[1].t = "str"
                /\ m[k].elems[1].s # ""
                /\ m[k].elems[2] = PyNone

C2_Witness ==
    /\ Loaded
    /\ Executed("intersphinx_mapping")
    /\ IsBound("intersphinx_mapping")
    /\ "selenium" \in DOMAIN env["intersphinx_mapping"].map

\* The six prompt forms: ">>> ", "... ", "$ ", "In [n]: " with n a run of
\* digits, 2 to 5 spaces then "...: ", 5 to 8 spaces then ": ".
SixPromptForms ==
    << << Lit(">"), Lit(">"), Lit(">"), Lit(" ") >>,
       << Lit("."), Lit("."), Lit("."), Lit(" ") >>,
       << Lit("$"), Lit(" ") >>,
       << Lit("I"), Lit("n"), Lit(" "), Lit("["), Atom("digit", "", 0, Unbounded),
          Lit("]"), Lit(":"), Lit(" ") >>,
       << Atom("lit", " ", 2, 5), Lit("."), Lit("."), Lit("."), Lit(":"), Lit(" ") >>,
       << Atom("lit", " ", 5, 8), Lit(":"), Lit(" ") >> >>

C3_StraightLineLoad ==
    /\ <>Loaded
    /\ [](/\ pc \in 1..Done
          /\ trace = [k \in 1..(pc - 1) |-> k])
    /\ [](Loaded => \A n \in ConfigNames : Is(n, LoadedSettings[n]))

C3_Witness ==
    /\ Loaded
    /\ Len(trace) = Len(Program)
    /\ \A n \in StaleNames : IsBound(n) /\ env[n] \notin StaleValues

\* a statement that has run keeps its binding in the step
KeepsBindings == \A n \in ConfigNames : Executed(n) => IsBound(n) /\ env'[n] = env[n]

\* C4: every configuration name is bound exactly once during the load, and
\* no later statement rebinds it or changes the value bound to it: each
\* setting keeps the value of its defining assignment until the load ends.
C4_BoundOnce ==
    /\ [](\A n \in ConfigNames :
            /\ Bindings(n) <= 1
            /\ Loaded => Bindings(n) = 1)
    /\ [](\A k \in 1..Len(trace) : Is(Program[trace[k]].name, Program[trace[k]].value))
    /\ [][KeepsBindings]_vars

C4_Witness ==
    /\ Loaded
    /\ Bindings("project") = 1
    /\ Is("project", Str("AutoHeal Locator"))

\* C7: the type-hint placement mode is "description", and
\* autodoc_typehints_description_target (= "documented") is never configured
\* while the mode is anything else.
C7_TargetOnlyWithDescription ==
    /\ Loaded => Is("autodoc_typehints", Str("description"))
    /\ Executed("autodoc_typehints_description_target") =>
            /\ Is("autodoc_typehints_description_target", Str("documented"))
            /\ Executed("autodoc_typehints")
            /\ Is("autodoc_typehints", Str("description"))

C7_Witness ==
    /\ Executed("autodoc_typehints_description_target")
    /\ Is("autodoc_typehints_description_target", Str("documented"))

TwiceWritten == {"navigation_depth", "collapse_navigation", "show_nav_level"}

\* C8: navigation_depth, collapse_navigation and show_nav_level are written
\* twice in the html_theme_options literal, with different values; the loaded
\* mapping holds each once with the later value (2, True, 1), not the earlier
\* one (4, False, 2); every other key is written exactly once.
C8_LaterValueWins ==
    /\ \A k \in Keys(ThemeOptionItems) :
            Cardinality(Occurrences(ThemeOptionItems, k)) = IF k \in TwiceWritten THEN 2 ELSE 1
    /\ \A k \in TwiceWritten : \A i, j \in Occurrences(ThemeOptionItems, k) :
            i # j => ThemeOptionItems[i][2] # ThemeOptionItems[j][2]
    /\ Loaded =>
        /\ IsBound("html_theme_options")
        /\ LET m == env["html_theme_options"].map IN
            /\ DOMAIN m = Keys(ThemeOptionItems)
            /\ m["navigation_depth"] = PyInt(2)
            /\ m["collapse_navigation"] = Bool(TRUE)
            /\ m["show_nav_level"] = PyInt(1)
            /\ m["navigation_depth"] # PyInt(4)
            /\ m["collapse_navigation"] # Bool(FALSE)
            /\ m["show_nav_level"] # PyInt(2)

C8_Witness ==
    /\ Loaded
    /\ Executed("html_theme_options")
    /\ IsBound("html_theme_options")
    /\ TwiceWritten \subseteq DOMAIN env["html_theme_options"].map

\* the extension an option belongs to, by the option's name
OptionOwners ==
    [myst_enable_extensions |-> "myst_parser",
     myst_url_schemes |-> "myst_parser",
     copybutton_prompt_text |-> "sphinx_copybutton",
     copybutton_prompt_is_regexp |-> "sphinx_copybutton",
     copybutton_line_continuation_character |-> "sphinx_copybutton",
     intersphinx_mapping |-> "sphinx.ext.intersphinx",
     autodoc_typehints |-> "sphinx.ext.autodoc",
     autodoc_typehints_description_target |-> "sphinx.ext.autodoc"]

\* the extension the options of a section belong to
SectionOwners ==
    [s \in {"Options for MyST parser", "Options for copy button",
            "Options for intersphinx", "Options for autodoc"} |->
        CASE s = "Options for MyST parser" -> "myst_parser"
          [] s = "Options for copy button" -> "sphinx_copybutton"
          [] s = "Options for intersphinx" -> "sphinx.ext.intersphinx"
          [] s = "Options for autodoc" -> "sphinx.ext.autodoc"]

ExtensionEnabled(ext) ==
    /\ Executed("extensions")
    /\ IsBound("extensions")
    /\ \E i \in 1..Len(env["extensions"].items) : env["extensions"].items[i] = Str(ext)

\* C9: every extension-specific option that has been set (myst_*,
\* copybutton_*, intersphinx_mapping, autodoc_*) belongs to an extension
\* listed in `extensions`.
C9_OptionsOfEnabledExtensions ==
    \A k \in 1..Len(trace) :
        LET st == Program[trace[k]] IN
        /\ st.name \in DOMAIN OptionOwners => ExtensionEnabled(OptionOwners[st.name])
        /\ st.section \in DOMAIN SectionOwners =>
                /\ st.name \in DOMAIN OptionOwners
                /\ OptionOwners[st.name] = SectionOwners[st.section]

C9_Witness ==
    /\ Executed("myst_url_schemes")
    /\ Executed("copybutton_prompt_text")
    /\ Executed("intersphinx_mapping")
    /\ Executed("autodoc_typehints")
    /\ ExtensionEnabled("sphinx_copybutton")

\* C10: html_theme_options["github_url"] and the URL of the icon link named
\* GitHub both equal "https://github.com/" + github_user + "/" + github_repo
\* of html_context.
C10_GithubDeclarationsAgree ==
    Loaded =>
        /\ IsBound("html_theme_options")
        /\ IsBound("html_context")
        /\ LET o == env["html_theme_options"].map
               c == env["html_context"].map
               links == o["icon_links"].items
               url == "https://github.com/" \o c["github_user"].s \o "/" \o c["github_repo"].s
           IN  /\ o["github_url"] = Str(url)
               /\ \E i \in 1..Len(links) : links[i].map["name"] = Str("GitHub")
               /\ \A i \in 1..Len(links) :
                    links[i].map["name"] = Str("GitHub") => links[i].map["url"] = Str(url)

C10_Witness ==
    /\ Loaded
    /\ Executed("html_context")
    /\ IsBound("html_context")
    /\ IsBound("html_theme_options")
    /\ "github_user" \in DOMAIN env["html_context"].map

====
